---- MODULE Spec2Model ----
(***************************************************************************)
(* The sliding-window rate limiter of codes/Day 5/3-Practise.py:           *)
(* is_rate_limited(ip) over the process-wide dictionary user_request_log.  *)
(*                                                                         *)
(* Time is counted in clock ticks, TicksPerSecond ticks to the second, so  *)
(* that half-second instants (t = 4.5) are integers.  Each call reads the  *)
(* clock once (now = time.time()); between two calls the clock advances by *)
(* a step drawn from a small set.                                          *)
(***************************************************************************)
EXTENDS Integers, Sequences, FiniteSets, TLC

\* ---------------------------------------------------------------- constants
RATE_LIMIT_WINDOW == 10

RATE_LIMIT_MAX_REQUESTS == 5

\* ------------------------------------------------------------------- bounds
TicksPerSecond == 2

MaxCalls == 8

MaxSeconds == 21

\* ------------------------------------------------------------ derived units
Window == RATE_LIMIT_WINDOW * TicksPerSecond

Half == TicksPerSecond \div 2

Sec(s) == s * TicksPerSecond

Horizon == Sec(MaxSeconds)

\* Client identities (request.client.host values).
ClientIds == {"A", "B"}

\* Clock advances between consecutive calls: the same instant, half a
\* second, one second, a second short of a window, exactly one window, a
\* window and a half second.
Steps == {0, Half, Sec(1), Window - Sec(1), Window, Window + Half}

\* The advances used when several clients call.
ClientSteps == {0, Sec(1), Window, Window + Half}

\* The differences between the clock values read by consecutive calls when
\* the wall clock may be set back: back by more than a window, back by a
\* second, none, forward by a second, forward by a window.
BackSteps == {0 - (Window + Sec(1)), 0 - Sec(1), 0, Sec(1), Window}

VARIABLES
    user_request_log,   \* the dictionary: client -> list of timestamps
    now,                \* the clock value read by the last call
    caller,             \* the ip of the last call ("none" before any call)
    result,             \* the value the last call returned (TRUE = limited)
    calls,              \* per client, the record of every call made for it
    solo,               \* per client, the dictionary of the run in which
                        \* only that client's calls are made
    soloResult,         \* what the last call returned in its caller's solo run
    quiet,              \* the run of the same calls in which some of the
                        \* calls that return True here are not made
    pc,                 \* per execution context, the statement it is at
    loc,                \* per execution context, the locals of its call, and
                        \* whether its append went to a list the dictionary
                        \* no longer held
    heap,               \* the list objects, by identity
    started,            \* the number of calls begun statement by statement
    interleaved,        \* whether a call has begun while another was running
    last,               \* the call begun last: its context, its clock value
                        \* and the list stored for its client when it began
    req,                \* per execution context, the /predict request it
                        \* handles: its arguments and locals
    served              \* the request answered last: its arguments, what
                        \* the handler did for it and the response sent

seqVars == <<caller, result, calls, solo, soloResult, quiet>>

procVars == <<pc, loc, heap, started, interleaved, last, req, served>>

vars == <<user_request_log, now, seqVars, procVars>>

\* ------------------------------------------------------- is_rate_limited
EmptyLog == [c \in {} |-> <<>>]

\* The key under which a client's list is kept: the ip itself.
KeyShared(ip) == "A"

Key(ip) == ip

\* user_request_log.get(ip, [])
Get(log, ip) == IF Key(ip) \in DOMAIN log THEN log[Key(ip)] ELSE <<>>

\* The filter of the list comprehension: now - t < RATE_LIMIT_WINDOW.
FreshInclusive(t, clock) == clock - t <= Window

FreshReversed(t, clock) == t - clock < Window

Fresh(t, clock) == clock - t < Window

\* logs = [t for t in logs if now - t < RATE_LIMIT_WINDOW]
Prune(logs, clock) == SelectSeq(logs, LAMBDA t : Fresh(t, clock))

\* len(logs) > RATE_LIMIT_MAX_REQUESTS
LimitedAtMax(logs) == Len(logs) >= RATE_LIMIT_MAX_REQUESTS

LimitedCountingCurrent(logs) == Len(logs) + 1 >= RATE_LIMIT_MAX_REQUESTS

LimitedOverMaxPlusOne(logs) == Len(logs) > RATE_LIMIT_MAX_REQUESTS + 1

Limited(logs) == Len(logs) > RATE_LIMIT_MAX_REQUESTS

\* The list the dictionary holds when the call returns: the pruned list,
\* with now appended unless the call returned True.
AppendAlways(logs, limited, clock) == Append(logs, clock)

StoredInFront(logs, limited, clock) ==
    IF limited THEN logs ELSE <<clock>> \o logs

Stored(logs, limited, clock) == IF limited THEN logs ELSE Append(logs, clock)

\* user_request_log[ip] = logs
StoreOnly(log, ip, logs) == [c \in {Key(ip)} |-> logs]

Store(log, ip, logs) ==
    [c \in DOMAIN log \cup {Key(ip)} |-> IF c = Key(ip) THEN logs ELSE log[c]]

\* One whole call: the dictionary afterwards, the returned value, and the
\* pruned list the length check looked at.
is_rate_limited(log, ip, clock) ==
    LET logs == Prune(Get(log, ip), clock)
        limited == Limited(logs)
    IN  [log  |-> Store(log, ip, Stored(logs, limited, clock)),
         ret  |-> limited,
         kept |-> logs]

\* ------------------------------------------- is_rate_limited, by statement
\* The execution contexts that may run is_rate_limited at the same time.
Procs == {"p1", "p2"}

\* Clock advances between the clock reads of two calls begun in a row.
ProcSteps == {0, Window - Sec(1)}

\* In the statement-by-statement system user_request_log holds, per client,
\* the identity of a list object and heap holds the objects; identity 0 is
\* the fresh empty list of .get(ip, []).
EmptyHeap == [i \in {} |-> <<>>]

NoCall ==
    [ip |-> "none", now |-> 0, logs |-> 0, ret |-> FALSE, n |-> 0,
     after |-> "none", serial |-> FALSE, lost |-> FALSE]

\* Identities for the objects that can be referenced at one time: one per
\* dictionary entry and one per running call.
ObjIds == 1 .. (Cardinality(ClientIds) + Cardinality(Procs))

\* The identity of a newly made list: one that nothing refers to.
NewId(log, locs, p) ==
    LET used == {log[c] : c \in DOMAIN log}
                    \cup {locs[q].logs : q \in Procs \ {p}}
    IN  CHOOSE i \in ObjIds \ used : \A j \in ObjIds \ used : i <= j

Deref(h, ref) == IF ref = 0 THEN <<>> ELSE h[ref]

\* What a dictionary lookup without a default gives for a missing key.
KeyError == 0 - 1

\* user_request_log.get(ip, []), as an object identity
GetRefNoDefault(log, ip) ==
    IF Key(ip) \in DOMAIN log THEN log[Key(ip)] ELSE KeyError

GetRef(log, ip) == IF Key(ip) \in DOMAIN log THEN log[Key(ip)] ELSE 0

\* The list the dictionary holds for a client, [] when it holds none.
StoredList(h, log, ip) ==
    IF Key(ip) \in DOMAIN log THEN h[log[Key(ip)]] ELSE <<>>

\* Objects no longer referenced, by the dictionary or by a running call,
\* are dropped.
Live(h, log, locs) ==
    LET refs == {log[c] : c \in DOMAIN log} \cup {locs[p].logs : p \in Procs}
    IN  [i \in DOMAIN h \cap refs |-> h[i]]

\* logs.append(now) on the object logs refers to.
ListAppendBounded(h, ref, clock) ==
    [h EXCEPT ![ref] = IF Len(@) >= RATE_LIMIT_MAX_REQUESTS
                       THEN Append(Tail(@), clock)
                       ELSE Append(@, clock)]

ListAppend(h, ref, clock) == [h EXCEPT ![ref] = Append(@, clock)]

\* The object line 37 appends to: the one the local name logs refers to.
AppendTargetStored(log, locs, p) == GetRef(log, locs[p].ip)

AppendTarget(log, locs, p) == locs[p].logs

\* Whether running the call begun last and then a call at clock, one after
\* the other from the list the former found, returns True for one of them.
SerialRejects(prev, ip, clock) ==
    LET first == is_rate_limited([c \in {Key(ip)} |-> prev.base], ip, prev.now)
        second == is_rate_limited(first.log, ip, clock)
    IN  first.ret \/ second.ret

\* The statements of is_rate_limited.
LimiterPcs == {"L31", "L32", "L33", "L35", "L37"}

\* A request being handled, and none.
NoRequest ==
    [handling |-> FALSE, client |-> "none", model |-> "none", text |-> <<>>,
     ip |-> "none", invoked |-> 0, limited |-> FALSE, at |-> 0,
     result |-> "none", response |-> [status |-> 0]]

\* The handler of context p ends with a response: the request is answered.
Answer(p, response) ==
    /\ served' = [req[p] EXCEPT !.handling = FALSE, !.response = response]
    /\ req' = [req EXCEPT ![p] = NoRequest]
    /\ pc' = [pc EXCEPT ![p] = "idle"]

\* Where a call of is_rate_limited returns to: the if of predict (line 61)
\* or the caller outside this file.
ReturnTo(p) == IF req[p].handling THEN "H61r" ELSE "idle"

\* def is_rate_limited(ip): now = time.time()
Call(p, ip, dt) ==
    /\ started < MaxCalls
    /\ now + dt <= Horizon
    /\ now' = now + dt
    /\ started' = started + 1
    /\ interleaved' =
           (interleaved \/ \E q \in Procs \ {p} : pc[q] \in LimiterPcs)
    /\ last' = [proc |-> p, now |-> now',
                base |-> StoredList(heap, user_request_log, ip)]
    /\ loc' = [loc EXCEPT ![p] =
                 [ip |-> ip, now |-> now', logs |-> 0, ret |-> FALSE, n |-> 0,
                  after |-> last.proc,
                  serial |-> SerialRejects(last, ip, now'),
                  lost |-> FALSE]]
    /\ pc' = [pc EXCEPT ![p] = "L31"]
    /\ UNCHANGED <<user_request_log, heap, seqVars>>

\* A call of is_rate_limited(ip) from outside this file.
Begin(p, ip, dt) ==
    /\ pc[p] = "idle"
    /\ Call(p, ip, dt)
    /\ UNCHANGED <<req, served>>

\* logs = user_request_log.get(ip, [])
L31(p) ==
    /\ pc[p] = "L31"
    /\ LET ref == GetRef(user_request_log, loc[p].ip)
       IN  IF ref = KeyError
           THEN /\ loc' = loc
                /\ pc' = [pc EXCEPT ![p] = "raised"]
           ELSE /\ loc' = [loc EXCEPT ![p].logs = ref]
                /\ pc' = [pc EXCEPT ![p] = "L32"]
    /\ heap' = Live(heap, user_request_log, loc')
    /\ UNCHANGED <<user_request_log, now, started, interleaved, last, req, served, seqVars>>

\* logs = [t for t in logs if now - t < RATE_LIMIT_WINDOW]: a new object
L32(p) ==
    /\ pc[p] = "L32"
    /\ LET new == NewId(user_request_log, loc, p)
       IN  /\ loc' = [loc EXCEPT ![p].logs = new]
           /\ heap' = Live([i \in DOMAIN heap \cup {new} |->
                              IF i = new
                              THEN Prune(Deref(heap, loc[p].logs), loc[p].now)
                              ELSE heap[i]],
                           user_request_log, loc')
    /\ pc' = [pc EXCEPT ![p] = "L33"]
    /\ UNCHANGED <<user_request_log, now, started, interleaved, last, req, served, seqVars>>

\* user_request_log[ip] = logs
L33(p) ==
    /\ pc[p] = "L33"
    /\ user_request_log' = Store(user_request_log, loc[p].ip, loc[p].logs)
    /\ heap' = Live(heap, user_request_log', loc)
    /\ pc' = [pc EXCEPT ![p] = "L35"]
    /\ UNCHANGED <<loc, now, started, interleaved, last, req, served, seqVars>>

\* if len(logs) > RATE_LIMIT_MAX_REQUESTS: return True
L35(p) ==
    /\ pc[p] = "L35"
    /\ IF Limited(heap[loc[p].logs])
       THEN /\ loc' = [loc EXCEPT ![p].n = Len(heap[loc[p].logs]),
                                  ![p].ret = TRUE,
                                  ![p].logs = 0]
            /\ pc' = [pc EXCEPT ![p] = ReturnTo(p)]
       ELSE /\ loc' = [loc EXCEPT ![p].n = Len(heap[loc[p].logs])]
            /\ pc' = [pc EXCEPT ![p] = "L37"]
    /\ heap' = Live(heap, user_request_log, loc')
    /\ UNCHANGED <<user_request_log, now, started, interleaved, last, req, served, seqVars>>

\* logs.append(now); return False
L37(p) ==
    /\ pc[p] = "L37"
    /\ loc' = [loc EXCEPT ![p].ret = FALSE, ![p].logs = 0,
                          ![p].lost =
                              (loc[p].logs # GetRef(user_request_log, loc[p].ip))]
    /\ heap' = Live(ListAppend(heap, AppendTarget(user_request_log, loc, p),
                               loc[p].now),
                    user_request_log, loc')
    /\ pc' = [pc EXCEPT ![p] = ReturnTo(p)]
    /\ UNCHANGED <<user_request_log, now, started, interleaved, last, req, served, seqVars>>

Step(p) == L31(p) \/ L32(p) \/ L33(p) \/ L35(p) \/ L37(p)

\* ------------------------------------------------------ predict, by statement
\* Texts are sequences of characters.
Good == <<"g", "o", "o", "d">>

Texts == {<<"s", "o", " ">> \o Good, <<"b", "a", "d">>}

ModelNames == {"sentiment", "length", "resnet"}

\* sub in text
Contains(text, sub) ==
    \E i \in 0 .. (Len(text) - Len(sub)) :
        SubSeq(text, i + 1, i + Len(sub)) = sub

\* AVAILABLE_MODELS
AVAILABLE_MODELS ==
    [sentiment |-> [text \in Texts |->
                       IF Contains(text, Good) THEN "positive" ELSE "negative"],
     length    |-> [text \in Texts |-> Len(text)]]

\* What the client receives when the handler returns a value: the value as
\* the body of a response with the default status.
Returned(body) == [status |-> 200, body |-> body]

\* What the client receives when the handler raises HTTPException.
Raised(status_code, detail) ==
    [status |-> status_code, body |-> [detail |-> detail]]

\* The HTTPException object of line 62.
TooManyRequests ==
    [status_code |-> 429, detail |-> "Too many requests,please try later!"]

\* Whether a coroutine gives the event loop back at a statement: neither
\* predict nor is_rate_limited awaits anything.
SuspendsInLimiter(at) == at = "L33"

Suspends(at) == FALSE

\* On one event loop a handler runs only while no other handler is between
\* two of its suspension points.
LoopRuns(p) == \A q \in Procs \ {p} : pc[q] = "idle" \/ Suspends(pc[q])

\* The order of predict's statements: the statement that follows one when
\* it neither returns nor raises.
LookupFirst(at) ==
    CASE at = "H60" -> "H64"
      [] at = "H64" -> "H61"
      [] at = "H61r" -> "H67"
      [] at = "H67" -> "H71"

NextStatement(at) ==
    CASE at = "H60" -> "H61"
      [] at = "H61r" -> "H64"
      [] at = "H64" -> "H67"
      [] at = "H67" -> "H71"

\* The condition of the if of line 61: the value is_rate_limited returned.
IfNotLimited(ret) == ~ret

IfLimited(ret) == ret

\* Whether calling a model function on a text raises: the text is not one
\* the function is defined on.
Fails(model, text) == text \notin DOMAIN AVAILABLE_MODELS[model]

handlerFrame == <<user_request_log, now, loc, heap, started, interleaved, last,
                  seqVars>>

\* async def predict(model_name, payload, request): a request reaches it
Arrive(p, client, model, text) ==
    /\ pc[p] = "idle"
    /\ started < MaxCalls
    /\ req' = [req EXCEPT ![p] =
                 [NoRequest EXCEPT !.handling = TRUE, !.client = client,
                                   !.model = model, !.text = text]]
    /\ pc' = [pc EXCEPT ![p] = "H60"]
    /\ UNCHANGED <<handlerFrame, served>>

\* client_ip = request.client.host
H60(p) ==
    /\ pc[p] = "H60"
    /\ req' = [req EXCEPT ![p].ip = req[p].client]
    /\ pc' = [pc EXCEPT ![p] = NextStatement("H60")]
    /\ UNCHANGED <<handlerFrame, served>>

\* if is_rate_limited(client_ip): the call
H61(p, dt) ==
    /\ pc[p] = "H61"
    /\ Call(p, req[p].ip, dt)
    /\ req' = [req EXCEPT ![p].invoked = @ + 1, ![p].at = now']
    /\ UNCHANGED served

\* if is_rate_limited(client_ip): return HTTPException(status_code=429, ...)
H61r(p) ==
    /\ pc[p] = "H61r"
    /\ IF IfLimited(loc[p].ret)
       THEN /\ served' = [req[p] EXCEPT !.handling = FALSE,
                                        !.limited = loc[p].ret,
                                        !.response = Returned(TooManyRequests)]
            /\ req' = [req EXCEPT ![p] = NoRequest]
            /\ pc' = [pc EXCEPT ![p] = "idle"]
       ELSE /\ req' = [req EXCEPT ![p].limited = loc[p].ret]
            /\ pc' = [pc EXCEPT ![p] = NextStatement("H61r")]
            /\ UNCHANGED served
    /\ UNCHANGED handlerFrame

\* if model_name not in AVAILABLE_MODELS: raise HTTPException(status_code=404, ...)
H64(p) ==
    /\ pc[p] = "H64"
    /\ IF req[p].model \notin DOMAIN AVAILABLE_MODELS
       THEN Answer(p, Raised(404, "not found"))
       ELSE /\ pc' = [pc EXCEPT ![p] = NextStatement("H64")]
            /\ UNCHANGED <<req, served>>
    /\ UNCHANGED handlerFrame

\* try: model_fn = AVAILABLE_MODELS[model_name]
\*      result = model_fn(payload.text)
\* except Exception: raise HTTPException(status_code=500, ...)
\* (payload.text is a validated string and both model functions are defined
\* on every string, so the except clause is not entered)
H67(p) ==
    /\ pc[p] = "H67"
    /\ IF Fails(req[p].model, req[p].text)
       THEN Answer(p, Raised(500, "failed"))
       ELSE /\ req' = [req EXCEPT ![p].result =
                                      AVAILABLE_MODELS[req[p].model][req[p].text]]
            /\ pc' = [pc EXCEPT ![p] = NextStatement("H67")]
            /\ UNCHANGED served
    /\ UNCHANGED handlerFrame

\* return {'model': model_name, 'input': payload.text, 'result': result}
H71(p) ==
    /\ pc[p] = "H71"
    /\ Answer(p, Returned([model |-> req[p].model, input |-> req[p].text,
                           result |-> req[p].result]))
    /\ UNCHANGED handlerFrame

HandlerStep(p) == H60(p) \/ H61r(p) \/ H64(p) \/ H67(p) \/ H71(p)

\* ---------------------------------------------------------------- the system
Init ==
    /\ user_request_log = EmptyLog
    /\ now = 0
    /\ caller = "none"
    /\ result = FALSE
    /\ calls = [c \in ClientIds |-> <<>>]
    /\ solo = [c \in ClientIds |-> EmptyLog]
    /\ soloResult = FALSE
    /\ quiet = [log |-> EmptyLog, ret |-> FALSE, made |-> FALSE,
                skipped |-> FALSE]
    /\ pc = [p \in Procs |-> "idle"]
    /\ loc = [p \in Procs |-> NoCall]
    /\ heap = EmptyHeap
    /\ started = 0
    /\ interleaved = FALSE
    /\ last = [proc |-> "none", now |-> 0, base |-> <<>>]
    /\ req = [p \in Procs |-> NoRequest]
    /\ served = NoRequest

NumCalls == Len(calls["A"]) + Len(calls["B"])

\* A call is_rate_limited(ip) made dt ticks after the previous call.
Request(ip, dt) ==
    /\ NumCalls < MaxCalls
    /\ now + dt <= Horizon
    /\ now' = now + dt
    /\ LET r == is_rate_limited(user_request_log, ip, now')
           s == is_rate_limited(solo[ip], ip, now')
       IN  /\ user_request_log' = r.log
           /\ result' = r.ret
           /\ calls' = [calls EXCEPT ![ip] =
                          Append(@, [t       |-> now',
                                     limited |-> r.ret,
                                     kept    |-> r.kept,
                                     stored  |-> Get(r.log, ip)])]
           /\ solo' = [solo EXCEPT ![ip] = s.log]
           /\ soloResult' = s.ret
           /\ \E skip \in BOOLEAN :
                /\ skip => r.ret
                /\ quiet' =
                     IF skip
                     THEN [quiet EXCEPT !.made = FALSE, !.skipped = TRUE]
                     ELSE LET q == is_rate_limited(quiet.log, ip, now')
                          IN  [quiet EXCEPT !.log = q.log, !.ret = q.ret,
                                            !.made = TRUE]
    /\ caller' = ip
    /\ UNCHANGED procVars

\* One client, every clock advance.
Next == \E dt \in Steps : Request("A", dt)

Spec == Init /\ [][Next]_vars

\* Several clients.
NextClients == \E ip \in ClientIds, dt \in ClientSteps : Request(ip, dt)

SpecClients == Init /\ [][NextClients]_vars

\* Calls for one client from contexts that interleave at every statement.
NextProcs ==
    \/ \E p \in Procs, dt \in ProcSteps : Begin(p, "A", dt)
    \/ \E p \in Procs : Step(p)

SpecProcs == Init /\ [][NextProcs]_vars

\* Requests to /predict handled as coroutines of one event loop.
NextLoop ==
    \E p \in Procs :
        /\ LoopRuns(p)
        /\ \/ \E model \in ModelNames, text \in Texts :
                  Arrive(p, "A", model, text)
           \/ \E dt \in ProcSteps : H61(p, dt)
           \/ Step(p)
           \/ HandlerStep(p)

SpecLoop == Init /\ [][NextLoop]_vars

\* One client, with a wall clock that can be set back between calls.
NextBack == \E dt \in BackSteps : now + dt >= 0 /\ Request("A", dt)

SpecBack == Init /\ [][NextBack]_vars

\* ------------------------------------------------------- reading the record
Clients == ClientIds

T(c, k) == calls[c][k].t

IsAdmitted(c, k) == ~calls[c][k].limited

IsRejected(c, k) == calls[c][k].limited

Indices(c) == 1 .. Len(calls[c])

Range(seq) == {seq[i] : i \in 1 .. Len(seq)}

Oldest(seq) == CHOOSE x \in Range(seq) : \A y \in Range(seq) : x <= y

\* The admitted calls among the first k of client c whose timestamps lie in
\* the window trailing call k.
AdmittedInWindow(c, k) ==
    {j \in 1 .. k : IsAdmitted(c, j) /\ T(c, k) - T(c, j) < Window}

\* The times of the first n calls of client c.
Times(c, n) == [i \in 1 .. n |-> T(c, i)]

\* The scenario of the specification: calls at t = 0, 1, 2, 3, 4 and 4.5
\* seconds, then one at t = 15.
ScenarioBurst == <<0, Sec(1), Sec(2), Sec(3), Sec(4), Sec(4) + Half>>

ScenarioLate == Sec(4) + Half + Window + Half

\* C1: once a client has max_requests admitted calls whose timestamps are
\* still inside the trailing window, its next call inside that window is
\* Rejected (W = 10, M = 5: the sixth call at t = 4.5 is Rejected).
C1_RejectedAfterMax ==
    \A c \in Clients : \A k \in Indices(c) :
        Cardinality(AdmittedInWindow(c, k) \ {k}) >= RATE_LIMIT_MAX_REQUESTS
            => IsRejected(c, k)

\* C2: the number of admitted calls of a client whose timestamps fall in a
\* trailing interval of length window_duration never exceeds max_requests.
C2_AtMostMaxAdmitted ==
    \A c \in Clients : \A k \in Indices(c) :
        Cardinality(AdmittedInWindow(c, k)) <= RATE_LIMIT_MAX_REQUESTS

\* C3: in a burst of calls of one client that starts from an empty window
\* and stays inside one window, exactly the first max_requests + 1 calls
\* are Admitted and every later call is Rejected.
C3_BurstAdmitsMaxPlusOne ==
    \A c \in Clients : \A i \in Indices(c) : \A j \in i .. Len(calls[c]) :
        (calls[c][i].kept = <<>> /\ T(c, j) - T(c, i) < Window)
            => (IsRejected(c, j) <=> j - i + 1 > RATE_LIMIT_MAX_REQUESTS + 1)

C3_Witness ==
    \E i \in Indices("A") :
        /\ i > 1
        /\ i + RATE_LIMIT_MAX_REQUESTS + 1 <= Len(calls["A"])
        /\ calls["A"][i].kept = <<>>
        /\ T("A", i + RATE_LIMIT_MAX_REQUESTS + 1) - T("A", i) < Window
        /\ IsAdmitted("A", i + RATE_LIMIT_MAX_REQUESTS)
        /\ IsRejected("A", i + RATE_LIMIT_MAX_REQUESTS + 1)

\* C4: the decision a call of a client receives is the decision it receives
\* in the run in which only that client's calls are made: no client's
\* requests change another client's decisions.
C4_NoInterference == caller # "none" => result = soloResult

C4_Witness ==
    /\ caller = "B"
    /\ result
    /\ soloResult
    /\ \E k \in Indices("A") : now - T("A", k) < Window

\* C5: when a call of a client was Rejected and its next call comes more
\* than window_duration after the oldest timestamp then stored, that next
\* call is Admitted (the call at t = 15 after the burst at t = 0 .. 4.5 is
\* Admitted, with the window pruned to empty first).
C5_AdmittedAfterWindow ==
    /\ \A c \in Clients : \A k \in Indices(c) :
        (/\ k < Len(calls[c])
         /\ IsRejected(c, k)
         /\ T(c, k + 1) - Oldest(calls[c][k].stored) > Window)
            => IsAdmitted(c, k + 1)
    /\ \A c \in Clients :
        (/\ Len(calls[c]) >= 7
         /\ Times(c, 6) = ScenarioBurst
         /\ T(c, 7) = ScenarioLate)
            => IsAdmitted(c, 7) /\ calls[c][7].kept = <<>>

C5_Witness ==
    \E k \in Indices("A") :
        /\ k < Len(calls["A"])
        /\ IsRejected("A", k)
        /\ T("A", k + 1) - Oldest(calls["A"][k].stored) > Window
        /\ T("A", k + 1) - T("A", k) < Window
        /\ calls["A"][k + 1].kept # <<>>
        /\ IsAdmitted("A", k + 1)

\* C6: when the calls of a client are spaced more than window_duration
\* apart, every call is Admitted and the stored window holds exactly one
\* timestamp after each call.
SpacedApart(c) ==
    \A k \in Indices(c) : k > 1 => T(c, k) - T(c, k - 1) > Window

C6_SpacedCallsAdmitted ==
    \A c \in Clients :
        SpacedApart(c) =>
            \A k \in Indices(c) :
                IsAdmitted(c, k) /\ calls[c][k].stored = <<T(c, k)>>

C6_Witness == Len(calls["A"]) >= 3 /\ SpacedApart("A")

\* C7: for a client with an empty window, max_requests calls issued at the
\* same instant are all Admitted.
C7_SameInstantAdmitted ==
    \A c \in Clients : \A i \in Indices(c) : \A j \in i .. Len(calls[c]) :
        (/\ calls[c][i].kept = <<>>
         /\ T(c, j) = T(c, i)
         /\ j - i + 1 <= RATE_LIMIT_MAX_REQUESTS)
            => IsAdmitted(c, j)

C7_Witness ==
    \E i \in Indices("A") :
        /\ i > 1
        /\ i + RATE_LIMIT_MAX_REQUESTS - 1 <= Len(calls["A"])
        /\ calls["A"][i].kept = <<>>
        /\ T("A", i + RATE_LIMIT_MAX_REQUESTS - 1) = T("A", i)
        /\ IsAdmitted("A", i + RATE_LIMIT_MAX_REQUESTS - 1)

\* C8: a call is Rejected exactly when more than max_requests timestamps
\* remain after the prune; in every other case now is appended to the
\* window and the call is Admitted.
C8_RejectedIffOverMax ==
    \A c \in Clients : \A k \in Indices(c) :
        /\ IsRejected(c, k) <=> Len(calls[c][k].kept) > RATE_LIMIT_MAX_REQUESTS
        /\ IsAdmitted(c, k) =>
              calls[c][k].stored = Append(calls[c][k].kept, T(c, k))
        /\ IsRejected(c, k) => calls[c][k].stored = calls[c][k].kept

C8_Witness ==
    \E j, k \in Indices("A") :
        /\ IsAdmitted("A", j)
        /\ Len(calls["A"][j].kept) = RATE_LIMIT_MAX_REQUESTS
        /\ IsRejected("A", k)
        /\ Len(calls["A"][k].kept) = RATE_LIMIT_MAX_REQUESTS + 1

\* The call just made, as a step of the system.
Called(c) == caller' = c /\ Len(calls'[c]) = Len(calls[c]) + 1

KeptByLastCall(c) == calls'[c][Len(calls'[c])].kept

\* C9 as stated: the prune removes exactly the timestamps t with
\* t < now - window_duration; one aged exactly window_duration is retained.
C9_PruneRemovesStrictlyOlder ==
    [][\A c \in Clients : Called(c) =>
          KeptByLastCall(c) =
              SelectSeq(Get(user_request_log, c),
                        LAMBDA t : ~(t < now' - Window))]_vars

\* C9 as amended: the prune removes exactly the timestamps t with
\* t <= now - window_duration; one aged exactly window_duration is removed
\* and no longer counts toward the limit.
C9_PruneRemovesAgedWindow ==
    [][\A c \in Clients : Called(c) =>
          KeptByLastCall(c) =
              SelectSeq(Get(user_request_log, c),
                        LAMBDA t : ~(t <= now' - Window))]_vars

\* A call whose predecessor left timestamps aged exactly window_duration,
\* older and younger: only the younger remain.
C9_Witness ==
    \E k \in Indices("A") :
        /\ k > 1
        /\ \E t \in Range(calls["A"][k - 1].stored) : T("A", k) - t = Window
        /\ \E t \in Range(calls["A"][k - 1].stored) : T("A", k) - t > Window
        /\ \E t \in Range(calls["A"][k - 1].stored) : T("A", k) - t < Window
        /\ \A t \in Range(calls["A"][k].kept) : T("A", k) - t < Window
        /\ calls["A"][k].kept # <<>>

\* C10: every call stores the pruned window of its client, and only an
\* Admitted call appends: after a Rejected call the stored window is the
\* pruned window it found, after an Admitted call that window with now
\* appended at the end.
C10_StoresPrunedWindow ==
    [][\A c \in Clients : Called(c) =>
          LET pruned == Prune(Get(user_request_log, c), now')
          IN  Get(user_request_log', c) =
                  IF result' THEN pruned ELSE Append(pruned, now')]_vars

C10_Witness ==
    \E j, k \in Indices("A") :
        /\ j > 1
        /\ IsAdmitted("A", j)
        /\ Len(calls["A"][j].kept) < Len(calls["A"][j - 1].stored)
        /\ k = Len(calls["A"])
        /\ IsRejected("A", k)
        /\ user_request_log["A"] = calls["A"][k].kept

\* C11: immediately after every call at time now, every timestamp t stored
\* for the calling client, the one just appended included, satisfies
\* 0 <= now - t < window_duration.
C11_StoredWithinWindow ==
    \A c \in Clients : \A k \in Indices(c) :
        \A t \in Range(calls[c][k].stored) :
            0 <= T(c, k) - t /\ T(c, k) - t < Window

C11_Witness ==
    /\ caller = "A"
    /\ ~result
    /\ Len(calls["A"]) > 1
    /\ Len(calls["A"][Len(calls["A"])].kept)
           < Len(calls["A"][Len(calls["A"]) - 1].stored)
    /\ \E t \in Range(user_request_log["A"]) : now - t = Window - Half
    /\ \E t \in Range(user_request_log["A"]) : now - t = 0

\* C12: each client's stored timestamp sequence is non-decreasing in every
\* reachable state.
NonDecreasing(seq) ==
    \A i \in 1 .. Len(seq) : i > 1 => seq[i - 1] <= seq[i]

C12_StoredNonDecreasing ==
    \A c \in DOMAIN user_request_log : NonDecreasing(user_request_log[c])

C12_Witness ==
    /\ caller = "A"
    /\ Len(calls["A"]) > 1
    /\ Len(calls["A"][Len(calls["A"])].kept)
           < Len(calls["A"][Len(calls["A"]) - 1].stored)
    /\ Cardinality(Range(user_request_log["A"])) >= 3
    /\ Len(user_request_log["A"]) > Cardinality(Range(user_request_log["A"]))

\* C13: a client's entry in the dictionary is created by the first call
\* made for that client and never removed: the set of keys only grows, and
\* the timestamps of a client that does not call stay as they are, however
\* old.
C13_EntriesCreatedNeverRemoved ==
    [][/\ DOMAIN user_request_log = {c \in Clients : calls[c] # <<>>}
       /\ DOMAIN user_request_log' = {c \in Clients : calls'[c] # <<>>}
       /\ DOMAIN user_request_log \subseteq DOMAIN user_request_log'
       /\ \A c \in DOMAIN user_request_log :
              ~Called(c) => user_request_log'[c] = user_request_log[c]]_vars

\* B has just been given its entry while A's entry holds only timestamps
\* that left the window long ago.
C13_Witness ==
    /\ caller = "B"
    /\ Len(calls["B"]) = 1
    /\ "A" \in DOMAIN user_request_log
    /\ Len(user_request_log["A"]) >= 2
    /\ \A t \in Range(user_request_log["A"]) : now - t > Window

\* C18: each client's stored window holds at most max_requests + 1
\* timestamps in every reachable state.
C18_AtMostMaxPlusOneStored ==
    \A c \in DOMAIN user_request_log :
        Len(user_request_log[c]) <= RATE_LIMIT_MAX_REQUESTS + 1

C18_Witness ==
    /\ caller = "A"
    /\ result
    /\ Len(calls["A"]) >= 2
    /\ IsRejected("A", Len(calls["A"]) - 1)
    /\ Len(user_request_log["A"]) = RATE_LIMIT_MAX_REQUESTS + 1

\* C19: after each call at time now the stored window of the calling client
\* is, in order, the sequence of that client's Admitted call times t with
\* now - t < window_duration; the times of Rejected calls are in no stored
\* window.
AdmittedTimes(c, k) ==
    LET RECURSIVE upto(_)
        upto(j) ==
            IF j = 0 THEN <<>>
            ELSE IF IsAdmitted(c, j) /\ T(c, k) - T(c, j) < Window
                 THEN Append(upto(j - 1), T(c, j))
                 ELSE upto(j - 1)
    IN  upto(k)

C19_StoredIsAdmittedInWindow ==
    \A c \in Clients : \A k \in Indices(c) :
        calls[c][k].stored = AdmittedTimes(c, k)

C19_Witness ==
    \E j \in Indices("A") :
        /\ j < Len(calls["A"])
        /\ IsRejected("A", j)
        /\ T("A", j) \notin Range(user_request_log["A"])
        /\ caller = "A"
        /\ ~result
        /\ Len(user_request_log["A"]) >= 2
        /\ Len(user_request_log["A"]) < Len(calls["A"][j].stored)

\* C20: Rejected calls do not extend a client's lockout: the run in which
\* some of the Rejected calls are not made gives every call it does make
\* the same decision and leaves the same timestamps stored, so a client
\* that keeps retrying is admitted again as soon as its oldest admitted
\* timestamp is pruned.
C20_RejectedCallsLeaveNoTrace ==
    caller # "none" =>
        /\ quiet.made => quiet.ret = result
        /\ \A c \in Clients : Get(quiet.log, c) = Get(user_request_log, c)

C20_Witness ==
    /\ caller = "A"
    /\ quiet.skipped
    /\ quiet.made
    /\ ~result
    /\ Len(calls["A"]) >= 2
    /\ IsRejected("A", Len(calls["A"]) - 1)
    /\ calls["A"][Len(calls["A"])].kept # <<>>
    /\ Len(calls["A"][Len(calls["A"])].kept)
           < Len(calls["A"][Len(calls["A"]) - 1].stored)

\* Two calls for one client, begun one right after the other, have both
\* returned False after finding the same number of timestamps, although run
\* one after the other from the list the first found one of them returns
\* True.
BothAdmittedOnStaleCount(p, q) ==
    /\ p # q
    /\ pc[p] = "idle" /\ pc[q] = "idle"
    /\ last.proc = q
    /\ loc[q].after = p
    /\ loc[p].ip = loc[q].ip
    /\ ~loc[p].ret /\ ~loc[q].ret
    /\ loc[p].n = loc[q].n
    /\ loc[q].serial

\* C15: nothing guards the read-prune-store-check-append sequence: when two
\* executions for one client interleave at statement granularity both can
\* observe the same stale count and both be Admitted where sequential
\* execution would reject one; when executions never interleave no such
\* state is reachable.
C15_StaleAdmissionNeedsInterleaving ==
    \A p, q \in Procs : BothAdmittedOnStaleCount(p, q) => interleaved

C15_Witness ==
    \E p, q \in Procs :
        /\ BothAdmittedOnStaleCount(p, q)
        /\ interleaved
        /\ loc[p].n = RATE_LIMIT_MAX_REQUESTS

\* The statements a call still has before it, at most.
Rank(at) ==
    CASE at = "L31" -> 5
      [] at = "L32" -> 4
      [] at = "L33" -> 3
      [] at = "L35" -> 2
      [] at = "L37" -> 1
      [] OTHER -> 0

\* C14: every call, for any client and any state of the dictionary, comes
\* to an end and returns one of Admitted (False) and Rejected (True); no
\* call raises an exception.
C14_CallsReturnADecision ==
    [][\A p \in Procs :
          (pc[p] \in LimiterPcs /\ pc'[p] # pc[p]) =>
              /\ pc'[p] # "raised"
              /\ Rank(pc'[p]) < Rank(pc[p])
              /\ pc'[p] \notin LimiterPcs => loc'[p].ret \in BOOLEAN]_vars

\* A call has returned True while the other context's call, the first one
\* for a client the dictionary did not hold, is at its length check.
C14_Witness ==
    \E p, q \in Procs :
        /\ pc[p] = "idle" /\ loc[p].ip = "A" /\ loc[p].ret
        /\ pc[q] = "L35" /\ loc[q].n = 0

\* The statements of predict from reading the client address to receiving
\* the limiter's decision.
DecisionPcs == {"H61", "H61r"} \cup LimiterPcs

\* C16: the limiter is invoked exactly once per request that reaches the
\* handler, and nothing in it suspends: while one handler is between
\* reading the client address and receiving the decision no other handler
\* of the event loop runs, so limiter executions never interleave.
C16_OneUninterruptedLimiterCall ==
    /\ \A p, q \in Procs :
          (p # q /\ pc[p] \in DecisionPcs) => pc[q] = "idle"
    /\ ~interleaved
    /\ served.response.status # 0 => served.invoked = 1
    /\ \A p \in Procs :
          req[p].handling =>
              req[p].invoked = IF pc[p] \in {"H60", "H61"} THEN 0 ELSE 1

C16_Witness ==
    /\ pc["p2"] = "L35"
    /\ req["p2"].invoked = 1
    /\ loc["p1"].ip = "A"
    /\ served.response.status = 200
    /\ served.invoked = 1
    /\ served.limited

\* C17: whenever the limiter returns Rejected for a request, the client
\* receives a too-many-requests error, HTTP status 429, as the outcome of
\* that request.
C17_RejectedGets429 == served.limited => served.response.status = 429

\* C21: a call for one client leaves the dictionary entry of every other
\* client as it was, neither pruned, nor appended to, nor created, nor
\* removed, whether the call returns False or True.
C21_OtherClientsUntouched ==
    [][\A c \in Clients : Called(c) =>
          \A d \in Clients \ {c} :
              /\ d \in DOMAIN user_request_log' <=> d \in DOMAIN user_request_log
              /\ d \in DOMAIN user_request_log =>
                     user_request_log'[d] = user_request_log[d]]_vars

\* A has been admitted and is now rejected while B's entry holds a timestamp
\* that a prune at this instant would drop.
C21_Witness ==
    /\ caller = "A"
    /\ result
    /\ \E k \in Indices("A") : IsAdmitted("A", k) /\ T("A", k) = now
    /\ "B" \in DOMAIN user_request_log
    /\ \E t \in Range(user_request_log["B"]) : now - t >= Window

\* The list object the dictionary holds for the client of context p's call
\* is not the one its local name logs refers to.
Detached(p) == loc[p].logs # GetRef(user_request_log, loc[p].ip)

\* C22: each call builds a new pruned list and rebinds the dictionary entry
\* to it before appending, so when two executions for one client interleave
\* a call that returns False can append its timestamp to a list that is no
\* longer the one in the dictionary: the stored list does not receive the
\* timestamp and the list that did is dropped, so that request is never
\* counted.  An append to the list the dictionary holds is stored.
C22_DetachedAppendIsLost ==
    [][\A p \in Procs :
          (pc[p] = "L37" /\ pc'[p] # "L37") =>
              LET ip == loc[p].ip
                  before == StoredList(heap, user_request_log, ip)
                  after == StoredList(heap', user_request_log', ip)
              IN  /\ ~loc'[p].ret
                  /\ Detached(p) =>
                        /\ interleaved
                        /\ after = before
                        /\ loc[p].logs \notin DOMAIN heap'
                  /\ ~Detached(p) => after = Append(before, loc[p].now)]_vars

\* Both calls have returned False; the append of the one begun first went
\* to a list the dictionary no longer held, and the stored list holds one
\* timestamp for the two admitted calls.
C22_Witness ==
    \E p, q \in Procs :
        /\ p # q
        /\ pc[p] = "idle" /\ pc[q] = "idle"
        /\ loc[p].lost /\ ~loc[q].lost
        /\ ~loc[p].ret /\ ~loc[q].ret
        /\ loc[q].after = p
        /\ loc[p].now < loc[q].now
        /\ loc[p].now \notin Range(StoredList(heap, user_request_log, "A"))
        /\ loc[q].now \in Range(StoredList(heap, user_request_log, "A"))
        /\ now - loc[p].now < Window

\* The statements of predict after the limiter's decision.
ModelPcs == {"H64", "H67", "H71"}

\* C23: in predict the limiter check comes before the model lookup: a
\* request that reaches the lookup has been admitted and its timestamp is
\* the last one stored, so a request answered 404 (unknown model) or 500
\* (model failure) has recorded its timestamp and counts toward the limit;
\* a rejected request for an unknown model gets the rate-limit response,
\* never the 404.
C23_LimiterBeforeModelLookup ==
    /\ \A p \in Procs :
          pc[p] \in ModelPcs =>
              LET stored == StoredList(heap, user_request_log, req[p].ip)
              IN  /\ req[p].invoked = 1
                  /\ ~req[p].limited
                  /\ stored # <<>>
                  /\ stored[Len(stored)] = req[p].at
    /\ served.response.status \in {404, 500} =>
          /\ served.invoked = 1
          /\ ~served.limited
          /\ now - served.at < Window =>
                 served.at \in
                     Range(StoredList(heap, user_request_log, served.ip))
    /\ (served.limited /\ served.model \notin DOMAIN AVAILABLE_MODELS) =>
          /\ served.response.status # 404
          /\ served.response.body = TooManyRequests

\* The request answered 404 took the last place in the window, and the next
\* request, for an unknown model too, has just been refused by the limiter.
C23_Witness ==
    \E p \in Procs :
        /\ served.response.status = 404
        /\ Len(StoredList(heap, user_request_log, "A"))
               = RATE_LIMIT_MAX_REQUESTS + 1
        /\ StoredList(heap, user_request_log, "A")[RATE_LIMIT_MAX_REQUESTS + 1]
               = served.at
        /\ pc[p] = "H61r"
        /\ loc[p].ret
        /\ req[p].model = "resnet"

\* C24: a request for which the limiter returns True never reaches the
\* model lookup or the model call: only requests the limiter admitted are
\* at those statements, and the response to a rejected request is the
\* rate-limit one, which has no 'result' field.
C24_RejectedNeverReachesModel ==
    /\ \A p \in Procs :
          pc[p] \in ModelPcs => (~loc[p].ret /\ ~req[p].limited)
    /\ served.limited =>
          /\ "result" \notin DOMAIN served.response.body
          /\ served.response.body = TooManyRequests

C24_Witness ==
    /\ served.limited
    /\ served.model = "sentiment"
    /\ served.response.body = TooManyRequests
    /\ \A p \in Procs : pc[p] = "idle"

\* The timestamps of a list that are later than a clock value.
Ahead(logs, clock) == SelectSeq(logs, LAMBDA t : t > clock)

====
